---- MODULE Spec2Model ----
(***************************************************************************)
(* The three webcam emotion monitors of Backend/facialrecongization        *)
(* (face.py, face_advanced.py, face_simple.py): the sadness scoring        *)
(* functions and the frame loop with its aggregation window.               *)
(*                                                                         *)
(* Units.  Times are in tenths of a second (0.3 s = 3, 30 s = 300).        *)
(* Classifier scores are whole percents; an intensity is kept in tenths of *)
(* a percent (37.5 = 375) so that the 0.3, 0.2, 0.6 and 0.4 weights are    *)
(* exact; a formatted mean ("%.2f") is kept in hundredths of a percent.    *)
(*                                                                         *)
(* Not modelled: drawing, the CSV header bootstrap, the averaged           *)
(* confidence columns of face_advanced.py / face_simple.py, the 'l' key,   *)
(* and which of face.py's two classifier backends is in use (both return   *)
(* a score dict or None).                                                  *)
(***************************************************************************)
EXTENDS Integers, Sequences, FiniteSets, TLC

VARIABLES
    pipeline,               \* which script runs: "face", "advanced", "simple"
    pc,                     \* position in main(): "frame", "flush", "key", "exit", "done"; "call..."/"returned..." for a direct function call
    clock,                  \* the last value time.time() returned
    now,                    \* main's local `now`
    window_start,
    last_sample_time,
    window_emotions,        \* list of per-sample dicts
    window_sadness_data,    \* list of {"level", "intensity"} dicts (face.py, face_advanced.py)
    current_emotion,
    current_sadness_level,
    rows,                   \* the rows appended to OUTPUT_CSV, oldest first
    iters,                  \* loop iterations started so far
    window_iters,           \* history: loop iterations started since window_start was last set
    inferences,             \* history: classifier invocations so far
    ret,                    \* main's local `ret`: did the last cap.read() deliver a frame
    faces,                  \* main's local `faces`: the rectangles of the last frame, numbered in detection order
    classified,             \* history: the rectangles the last iteration handed to the classifier, in order
    args,                   \* arguments of a direct call of one of the functions
    result                  \* its return value

vars == <<pipeline, pc, clock, now, window_start, last_sample_time, window_emotions,
          window_sadness_data, current_emotion, current_sadness_level, rows, iters,
          window_iters, inferences, ret, faces, classified, args, result>>

loopvars == <<clock, now, window_start, last_sample_time, window_emotions,
              window_sadness_data, current_emotion, current_sadness_level, rows, iters,
              window_iters, inferences, ret, faces, classified>>

-----------------------------------------------------------------------------
(* Bounds of the model *)

MaxIter == 3          \* loop iterations per session
MaxWindow == 4        \* samples in a window taken at its close
MaxFaces == 2         \* rectangles the face locator returns for one frame
StartTime == 10       \* time.time() when main() starts

(* Program constants, in tenths of a second *)

SAMPLE_INTERVAL_FACE == 3
SAMPLE_INTERVAL_ADVANCED == 3
SAMPLE_INTERVAL_SIMPLE == 5
AGGREGATION_WINDOW == 300

SAMPLE_INTERVAL(p) ==
    CASE p = "face" -> SAMPLE_INTERVAL_FACE
      [] p = "advanced" -> SAMPLE_INTERVAL_ADVANCED
      [] OTHER -> SAMPLE_INTERVAL_SIMPLE

None == "None"
NA == "N/A"

Min(a, b) == IF a <= b THEN a ELSE b
Max(a, b) == IF a >= b THEN a ELSE b

-----------------------------------------------------------------------------
(* face.py: the label set and the band table *)

EMOTIONS == <<"angry", "disgust", "fear", "happy", "sad", "surprise", "neutral">>

\* SADNESS_LEVELS of face.py, in dict order; bounds in percent
SADNESS_LEVELS_FACE ==
    << [level |-> "upset", min_val |-> 0, max_val |-> 40],
       [level |-> "melancholic", min_val |-> 40, max_val |-> 70],
       [level |-> "depressed", min_val |-> 70, max_val |-> 100] >>

\* SADNESS_LEVELS of face_advanced.py, in dict order; bounds in percent
SADNESS_LEVELS_ADVANCED ==
    << [level |-> "mild_upset", min_val |-> 0, max_val |-> 35],
       [level |-> "moderate_melancholic", min_val |-> 35, max_val |-> 65],
       [level |-> "severe_depressed", min_val |-> 65, max_val |-> 100] >>

\* variant: the bounds are tested as `min_val < x <= max_val`
BandMatchesUpperInclusive(band, x10) == band.min_val * 10 < x10 /\ x10 <= band.max_val * 10

\* `min_val <= x < max_val` for x in tenths of a percent
BandMatches(band, x10) == band.min_val * 10 <= x10 /\ x10 < band.max_val * 10

\* index of the first band of the table that matches, 0 when the for loop falls through
RECURSIVE FirstBand(_, _, _)
FirstBand(table, x10, i) ==
    IF i > Len(table) THEN 0
    ELSE IF BandMatches(table[i], x10) THEN i
    ELSE FirstBand(table, x10, i + 1)

\* variant: the fear boost takes the neutral boost's weight, 0.2
AdjustedScoreFearWeight(sad_score, fear_score, neutral_score) ==
    LET a0 == sad_score * 10
        a1 == IF fear_score > 20 THEN Min(1000, sad_score * 10 + fear_score * 2) ELSE a0
    IN  IF neutral_score > 40 /\ sad_score > 20
        THEN Min(1000, sad_score * 10 + neutral_score * 2)
        ELSE a1

\* variant: the neutral boost does not ask for sad_score > 20
AdjustedScoreNeutralAlone(sad_score, fear_score, neutral_score) ==
    LET a0 == sad_score * 10
        a1 == IF fear_score > 20 THEN Min(1000, sad_score * 10 + fear_score * 3) ELSE a0
    IN  IF neutral_score > 40
        THEN Min(1000, sad_score * 10 + neutral_score * 2)
        ELSE a1

\* the adjusted score of face.py's classify_sadness_level, in tenths of a percent
AdjustedScore(sad_score, fear_score, neutral_score) ==
    LET a0 == sad_score * 10
        a1 == IF fear_score > 20 THEN Min(1000, sad_score * 10 + fear_score * 3) ELSE a0
    IN  IF neutral_score > 40 /\ sad_score > 20
        THEN Min(1000, sad_score * 10 + neutral_score * 2)
        ELSE a1

\* variant: the confidence returned is the raw sad score
classify_sadness_level_raw_confidence(sad_score, fear_score, neutral_score) ==
    LET adjusted_score == AdjustedScore(sad_score, fear_score, neutral_score)
        i == FirstBand(SADNESS_LEVELS_FACE, adjusted_score, 1)
    IN  IF i > 0 THEN <<SADNESS_LEVELS_FACE[i].level, sad_score * 10>>
        ELSE <<"upset", sad_score * 10>>

\* face.py classify_sadness_level: <<level, confidence>>
classify_sadness_level(sad_score, fear_score, neutral_score) ==
    LET adjusted_score == AdjustedScore(sad_score, fear_score, neutral_score)
        i == FirstBand(SADNESS_LEVELS_FACE, adjusted_score, 1)
    IN  IF i > 0 THEN <<SADNESS_LEVELS_FACE[i].level, adjusted_score>>
        ELSE <<"upset", sad_score * 10>>

\* level.split('_')[1] for the three keys of face_advanced.py's table
SplitSecond(level) ==
    CASE level = "mild_upset" -> "upset"
      [] level = "moderate_melancholic" -> "melancholic"
      [] level = "severe_depressed" -> "depressed"

\* variant: the default is the first part of the lowest key
classify_sadness_level_advanced_default_mild(intensity) ==
    LET i == FirstBand(SADNESS_LEVELS_ADVANCED, intensity, 1)
    IN  IF i > 0 THEN SplitSecond(SADNESS_LEVELS_ADVANCED[i].level) ELSE "mild"

\* face_advanced.py classify_sadness_level; intensity in tenths of a percent
classify_sadness_level_advanced(intensity) ==
    LET i == FirstBand(SADNESS_LEVELS_ADVANCED, intensity, 1)
    IN  IF i > 0 THEN SplitSecond(SADNESS_LEVELS_ADVANCED[i].level) ELSE "upset"

\* variant: a later label with the same score replaces the best one (the last maximum)
RECURSIVE ArgMaxLast(_, _, _)
ArgMaxLast(s, i, best) ==
    IF i > Len(s) THEN best
    ELSE ArgMaxLast(s, i + 1, IF s[i] >= s[best] THEN i ELSE best)

\* first index holding the maximum of a non-empty sequence of numbers
\* (Python's max() returns the first maximal item)
RECURSIVE ArgMaxFirst(_, _, _)
ArgMaxFirst(s, i, best) ==
    IF i > Len(s) THEN best
    ELSE ArgMaxFirst(s, i + 1, IF s[i] > s[best] THEN i ELSE best)

emotion_map(e) ==
    CASE e = "fear" -> "fearful"
      [] e = "surprise" -> "surprised"
      [] e = "disgust" -> "angry"
      [] OTHER -> e

\* face.py get_dominant_emotion on a score dict given as its values in EMOTIONS
\* order (the order predict_emotion_custom builds it in); <<>> stands for a dict
\* that is None or empty, for which `not emotion_scores` holds
get_dominant_emotion(emotion_scores) ==
    IF Len(emotion_scores) = 0 THEN None
    ELSE emotion_map(EMOTIONS[ArgMaxFirst(emotion_scores, 1, 1)])

-----------------------------------------------------------------------------
(* face_advanced.py: landmark scoring and the binary classifier *)

\* A landmark dict is represented by the five measurements analyze_facial_features
\* derives from it: avg_ear in hundredths, avg_brow_dist in pixels, downturn in
\* pixels, mar in tenths, jaw_variance.
NoLandmarks == [present |-> FALSE]

Landmarks(ear, brow, downturn, mar, jaw) ==
    [present |-> TRUE, avg_ear |-> ear, avg_brow_dist |-> brow, downturn |-> downturn,
     mar |-> mar, jaw_variance |-> jaw]

\* variant: the points are normalised by the sum of the weights of the rubric
analyze_facial_features_weighted(landmarks) ==
    IF ~landmarks.present THEN 50
    ELSE
      LET eye == IF landmarks.avg_ear < 20 THEN 30
                 ELSE IF landmarks.avg_ear < 25 THEN 20 ELSE 0
          brow == IF landmarks.avg_brow_dist < 15 THEN 25
                  ELSE IF landmarks.avg_brow_dist < 20 THEN 15 ELSE 0
          mouth == IF landmarks.downturn > 5 THEN 35
                   ELSE IF landmarks.downturn > 2 THEN 20 ELSE 0
          lips == IF landmarks.mar < 3 THEN 10 ELSE 0
          jaw == IF landmarks.jaw_variance < 50 THEN 10 ELSE 0
          sadness_score == eye + brow + mouth + lips + jaw
          confidence == 30 + 25 + 35 + 10 + 10
      IN  Min(100, (sadness_score * 100) \div confidence)

\* analyze_facial_features: sadness score in percent
analyze_facial_features(landmarks) ==
    IF ~landmarks.present THEN 50
    ELSE
      LET eye == IF landmarks.avg_ear < 20 THEN 30
                 ELSE IF landmarks.avg_ear < 25 THEN 20 ELSE 0
          brow == IF landmarks.avg_brow_dist < 15 THEN 25
                  ELSE IF landmarks.avg_brow_dist < 20 THEN 15 ELSE 0
          mouth == IF landmarks.downturn > 5 THEN 35
                   ELSE IF landmarks.downturn > 2 THEN 20 ELSE 0
          lips == IF landmarks.mar < 3 THEN 10 ELSE 0
          jaw == IF landmarks.jaw_variance < 50 THEN 10 ELSE 0
          sadness_score == eye + brow + mouth + lips + jaw
          confidence == eye + brow + mouth + lips + jaw
      IN  IF confidence > 0 THEN Min(100, (sadness_score * 100) \div confidence)
          ELSE sadness_score

\* What model.predict does on one call: it raises, or it returns the two softmax
\* probabilities and the sigmoid intensity, in percent.
PredictRaises == [ok |-> FALSE]

Prediction(sad, happy, intensity) ==
    [ok |-> TRUE, sad_prob |-> sad, happy_prob |-> happy, model_intensity |-> intensity]

\* variant: the geometric score is blended in whether or not landmarks were found
predict_emotion_always_blends(prediction, landmarks) ==
    IF ~prediction.ok
    THEN [emotion |-> "neutral", intensity |-> 0, sad_prob |-> 50, happy_prob |-> 50]
    ELSE IF prediction.happy_prob > prediction.sad_prob
    THEN [emotion |-> "happy", intensity |-> 0,
          sad_prob |-> prediction.sad_prob, happy_prob |-> prediction.happy_prob]
    ELSE [emotion |-> "sad",
          intensity |-> prediction.model_intensity * 6
                        + analyze_facial_features(landmarks) * 4,
          sad_prob |-> prediction.sad_prob, happy_prob |-> prediction.happy_prob]

\* face_advanced.py predict_emotion; intensity in tenths of a percent
predict_emotion(prediction, landmarks) ==
    IF ~prediction.ok
    THEN [emotion |-> "neutral", intensity |-> 0, sad_prob |-> 50, happy_prob |-> 50]
    ELSE IF prediction.happy_prob > prediction.sad_prob
    THEN [emotion |-> "happy", intensity |-> 0,
          sad_prob |-> prediction.sad_prob, happy_prob |-> prediction.happy_prob]
    ELSE [emotion |-> "sad",
          intensity |-> IF landmarks.present
                        THEN prediction.model_intensity * 6
                             + analyze_facial_features(landmarks) * 4
                        ELSE prediction.model_intensity * 10,
          sad_prob |-> prediction.sad_prob, happy_prob |-> prediction.happy_prob]

-----------------------------------------------------------------------------
(* face_simple.py: the mouth-shape heuristic *)

\* The measurements detect_emotion takes from the image: len(smiles),
\* brightness_diff, inverted_smile, and edge_ratio in tenths.
Mouth(smiles, brightness_diff, inverted_smile, edge_ratio) ==
    [smiles |-> smiles, brightness_diff |-> brightness_diff,
     inverted_smile |-> inverted_smile, edge_ratio |-> edge_ratio]

Abs(x) == IF x < 0 THEN -x ELSE x

\* detect_emotion's decision cascade: <<emotion, confidence>>, confidence in tenths of a percent
detect_emotion(m) ==
    IF m.smiles > 0 THEN <<"happy", Min(900, 600 + m.smiles * 100)>>
    ELSE IF m.brightness_diff > 5 THEN <<"happy", Min(850, 500 + m.brightness_diff * 20)>>
    ELSE IF m.inverted_smile > 8 THEN <<"sad", Min(850, 550 + m.inverted_smile * 20)>>
    ELSE IF m.edge_ratio > 15 THEN <<"sad", Min(800, 500 + (m.edge_ratio - 10) * 15)>>
    ELSE IF m.brightness_diff < -2 THEN <<"sad", Min(750, 450 + Abs(m.brightness_diff) * 30)>>
    ELSE <<"sad", 350>>

-----------------------------------------------------------------------------
(* The aggregation at window close *)

\* index of key k in a list of [key, count] pairs, 0 when absent
RECURSIVE KeyIndex(_, _, _)
KeyIndex(counts, k, i) ==
    IF i > Len(counts) THEN 0
    ELSE IF counts[i].key = k THEN i
    ELSE KeyIndex(counts, k, i + 1)

\* variant: counts[k] = 1, the count the key already has is forgotten
IncrementForgets(counts, k) ==
    LET i == KeyIndex(counts, k, 1)
    IN  IF i = 0 THEN Append(counts, [key |-> k, count |-> 1])
        ELSE [counts EXCEPT ![i].count = 1]

\* counts[k] = counts.get(k, 0) + 1 on a dict kept as its items in insertion order
Increment(counts, k) ==
    LET i == KeyIndex(counts, k, 1)
    IN  IF i = 0 THEN Append(counts, [key |-> k, count |-> 1])
        ELSE [counts EXCEPT ![i].count = @ + 1]

\* the counting loop over a list of keys
RECURSIVE CountKeys(_, _, _)
CountKeys(keys, i, counts) ==
    IF i > Len(keys) THEN counts
    ELSE CountKeys(keys, i + 1, Increment(counts, keys[i]))

\* variant: a later item with the same count replaces the best one (the last maximum)
RECURSIVE MaxCountIndexLast(_, _, _)
MaxCountIndexLast(counts, i, best) ==
    IF i > Len(counts) THEN best
    ELSE MaxCountIndexLast(counts, i + 1,
                           IF counts[i].count >= counts[best].count THEN i ELSE best)

\* max(counts.items(), key=lambda x: x[1])[0]: the first item with the largest count
RECURSIVE MaxCountIndex(_, _, _)
MaxCountIndex(counts, i, best) ==
    IF i > Len(counts) THEN best
    ELSE MaxCountIndex(counts, i + 1, IF counts[i].count > counts[best].count THEN i ELSE best)

MajorityKey(counts) == counts[MaxCountIndex(counts, 1, 1)].key

EmotionsOf(entries) == [i \in 1..Len(entries) |-> entries[i].emotion]
LevelsOf(entries) == [i \in 1..Len(entries) |-> entries[i].level]

RECURSIVE SumIntensity(_, _)
SumIntensity(entries, i) ==
    IF i > Len(entries) THEN 0 ELSE entries[i].intensity + SumIntensity(entries, i + 1)

\* f"{total / n:.2f}" for total in tenths of a percent: the hundredths nearest to
\* total/n.  On an exact tie the digit printed depends on the binary value of the
\* quotient, so both neighbours are possible.
Format2f(total, n) ==
    { h \in ((total * 10) \div n) .. ((total * 10) \div n + 1) :
        2 * Abs(h * n - total * 10) <= n }

\* variant: the level is written as it is, None when there is no sad sample
LevelColumnAsIs(sad_data) ==
    IF Len(sad_data) > 0 THEN MajorityKey(CountKeys(LevelsOf(sad_data), 1, <<>>)) ELSE None

\* the sadness_level column: `sadness_level if sadness_level else "N/A"`
LevelColumn(sad_data) ==
    IF Len(sad_data) > 0 THEN MajorityKey(CountKeys(LevelsOf(sad_data), 1, <<>>)) ELSE NA

\* the sadness_intensity column: `f"{sadness_intensity:.2f}" if sadness_intensity else "N/A"`;
\* the mean is falsy when there is no sad sample (None) and when it is 0.0
IntensityColumns(sad_data) ==
    IF Len(sad_data) > 0 /\ SumIntensity(sad_data, 1) # 0
    THEN { [kind |-> "number", hundredths |-> h] :
             h \in Format2f(SumIntensity(sad_data, 1), Len(sad_data)) }
    ELSE { [kind |-> NA] }

-----------------------------------------------------------------------------
(* The inputs the environment can hand to one loop iteration *)

\* seconds (in tenths) between two successive readings of time.time() at line 252
Elapsed == {1, 3, 300}

\* time.time() at the window reset is read after `now`: the same tenth or the next
ResetDelay == {0, 1}

\* 7-class score dicts (percent, in EMOTIONS order) the classifier can return
ScoreVectors ==
    { <<16, 16, 16, 16, 20, 16, 0>>,     \* sad 20
      <<20, 0, 0, 30, 50, 0, 0>>,        \* sad 50
      <<0, 0, 20, 0, 80, 0, 0>>,         \* sad 80
      <<0, 0, 0, 0, 100, 0, 0>>,         \* sad 100
      <<0, 0, 25, 0, 60, 0, 15>>,        \* sad 60 with fear 25
      <<0, 60, 0, 0, 40, 0, 0>>,         \* disgust
      <<0, 0, 0, 100, 0, 0, 0>> }        \* happy

\* the score dicts the frame loop is explored with
LoopScoreVectors ==
    { <<20, 0, 0, 30, 50, 0, 0>>, <<0, 0, 0, 100, 0, 0, 0>> }

\* predict_emotion_custom / analyze_emotion_deepface: a score dict, or None on an exception
FaceOutcome(v) == [ok |-> TRUE, scores |-> v]
FaceFails == [ok |-> FALSE]

\* model.predict of the binary model: the softmax pair and the sigmoid intensity
Predictions ==
    { Prediction(30, 70, 0) } \cup { Prediction(70, 30, i) : i \in {0, 20, 50, 80} }

LoopPredictions == { PredictRaises, Prediction(30, 70, 0), Prediction(70, 30, 50) }

\* get_facial_landmarks: None, a face with no indicator, a face with every indicator
LandmarkOutcomes == { NoLandmarks, Landmarks(30, 25, 0, 5, 80), Landmarks(15, 10, 6, 2, 40) }

LoopLandmarkOutcomes == { NoLandmarks, Landmarks(15, 10, 6, 2, 40) }

\* the mouth measurements of one face: one per branch of detect_emotion
Mouths ==
    { Mouth(1, 0, 0, 10), Mouth(0, 6, 0, 10), Mouth(0, 0, 9, 10), Mouth(0, 0, 0, 20),
      Mouth(0, -3, 0, 10), Mouth(0, 0, 0, 10) }

LoopMouths == { Mouth(1, 0, 0, 10), Mouth(0, 0, 0, 10) }

-----------------------------------------------------------------------------
(* What one sampling tick appends *)

\* face.py lines 279-282: the dict appended to window_emotions
EntryFace(scores) == [emotion |-> get_dominant_emotion(scores), scores |-> scores]

\* variant: fear is looked up under its remapped name "fearful", which the score
\* dict does not have, so .get gives 0
SadEntryFaceRemappedKeys(scores) ==
    LET cls == classify_sadness_level(scores[5], 0, scores[7])
    IN  [level |-> cls[1], intensity |-> cls[2]]

\* face.py lines 286-298: the dict appended to window_sadness_data
SadEntryFace(scores) ==
    LET cls == classify_sadness_level(scores[5], scores[3], scores[7])
    IN  [level |-> cls[1], intensity |-> cls[2]]

\* face_advanced.py lines 422-427: predict_emotion's tuple is stored as it is
EntryAdvanced(prediction, landmarks) == predict_emotion(prediction, landmarks)

\* face_advanced.py lines 430-435
SadEntryAdvanced(r) ==
    [level |-> classify_sadness_level_advanced(r.intensity), intensity |-> r.intensity]

\* face_simple.py lines 224-227
EntrySimple(mouth) ==
    LET r == detect_emotion(mouth) IN [emotion |-> r[1], confidence |-> r[2]]

-----------------------------------------------------------------------------
(* The frame loop *)

\* variant: the gate without the interval test
SampleDueAnyFrame(p, t, last, nfaces) == nfaces > 0

\* line 258 / 404 / 210: the sampling gate
SampleDue(p, t, last, nfaces) == t - last >= SAMPLE_INTERVAL(p) /\ nfaces > 0

\* variant: the window has to be strictly longer than AGGREGATION_WINDOW
WindowElapsedStrict(t, start) == t - start > AGGREGATION_WINDOW

\* variant: the window test against the sampling interval
WindowElapsedAfterInterval(t, start) == t - start >= SAMPLE_INTERVAL_FACE

\* line 371 / 500 / 286: the window has elapsed
WindowElapsed(t, start) == t - start >= AGGREGATION_WINDOW

\* detect_faces / detectMultiScale returns n rectangles; they are numbered in the
\* order they come back
Rects(n) == [i \in 1..n |-> i]

\* face.py line 262, face_advanced.py line 407: `x, y, w, h = faces[0]`
FirstFace(fs) == fs[1]

\* variant: the loop body runs on every rectangle (no break)
EveryFace(fs) == fs

\* face_simple.py lines 213-235: the rectangles the body of `for ... in faces` runs
\* on; the `break` at the end of the body leaves the loop after the first one
FacesUntilBreak(fs) == SubSeq(fs, 1, Min(Len(fs), 1))

\* variant: last_sample_time is assigned only when the classifier returned scores,
\* so a failed tick is tried again on the next frame
SampleFaceRetries(outcome) ==
    /\ last_sample_time' = IF outcome.ok THEN now' ELSE last_sample_time
    /\ classified' = <<FirstFace(faces')>>
    /\ inferences' = inferences + 1
    /\ IF outcome.ok
       THEN LET e == EntryFace(outcome.scores)
            IN  /\ current_emotion' = e.emotion
                /\ window_emotions' = Append(window_emotions, e)
                /\ IF e.emotion = "sad"
                   THEN LET sd == SadEntryFace(outcome.scores)
                        IN  /\ current_sadness_level' = sd.level
                            /\ window_sadness_data' = Append(window_sadness_data, sd)
                   ELSE /\ current_sadness_level' = None
                        /\ UNCHANGED window_sadness_data
       ELSE UNCHANGED <<current_emotion, current_sadness_level, window_emotions,
                        window_sadness_data>>

\* face.py lines 259-300: the sampling block, given the classifier's outcome on
\* the rectangle it is handed
SampleFace(outcome) ==
    /\ last_sample_time' = now'
    /\ classified' = <<FirstFace(faces')>>
    /\ inferences' = inferences + 1
    /\ IF outcome.ok
       THEN LET e == EntryFace(outcome.scores)
            IN  /\ current_emotion' = e.emotion
                /\ window_emotions' = Append(window_emotions, e)
                /\ IF e.emotion = "sad"
                   THEN LET sd == SadEntryFace(outcome.scores)
                        IN  /\ current_sadness_level' = sd.level
                            /\ window_sadness_data' = Append(window_sadness_data, sd)
                   ELSE /\ current_sadness_level' = None
                        /\ UNCHANGED window_sadness_data
       ELSE UNCHANGED <<current_emotion, current_sadness_level, window_emotions,
                        window_sadness_data>>

\* variant: a result that is not sad leaves the displayed level as it was
SampleAdvancedKeepsLevel(prediction, landmarks) ==
    LET r == EntryAdvanced(prediction, landmarks)
    IN  /\ last_sample_time' = now'
        /\ classified' = <<FirstFace(faces')>>
        /\ inferences' = inferences + 1
        /\ current_emotion' = r.emotion
        /\ window_emotions' = Append(window_emotions, r)
        /\ IF r.emotion = "sad"
           THEN LET sd == SadEntryAdvanced(r)
                IN  /\ current_sadness_level' = sd.level
                    /\ window_sadness_data' = Append(window_sadness_data, sd)
           ELSE UNCHANGED <<current_sadness_level, window_sadness_data>>

\* face_advanced.py lines 405-437: whatever predict_emotion returns is stored
SampleAdvanced(prediction, landmarks) ==
    LET r == EntryAdvanced(prediction, landmarks)
    IN  /\ last_sample_time' = now'
        /\ classified' = <<FirstFace(faces')>>
        /\ inferences' = inferences + 1
        /\ current_emotion' = r.emotion
        /\ window_emotions' = Append(window_emotions, r)
        /\ IF r.emotion = "sad"
           THEN LET sd == SadEntryAdvanced(r)
                IN  /\ current_sadness_level' = sd.level
                    /\ window_sadness_data' = Append(window_sadness_data, sd)
           ELSE /\ current_sadness_level' = None
                /\ UNCHANGED window_sadness_data

\* face_simple.py lines 211-235: the for loop over faces, given the mouth
\* measurements of every rectangle; each pass of the body appends one entry
SampleSimple(mouth_of) ==
    LET body == FacesUntilBreak(faces')
        entries == [i \in 1..Len(body) |-> EntrySimple(mouth_of[body[i]])]
    IN  /\ last_sample_time' = now'
        /\ classified' = body
        /\ inferences' = inferences + Len(body)
        /\ current_emotion' = entries[Len(entries)].emotion
        /\ window_emotions' = window_emotions \o entries
        /\ UNCHANGED <<current_sadness_level, window_sadness_data>>

\* variant: an iteration that does not sample still restarts the interval, at the
\* last time the clock was read
NoSampleConsumesSlot ==
    /\ classified' = <<>>
    /\ last_sample_time' = clock
    /\ UNCHANGED <<inferences, current_emotion, current_sadness_level,
                   window_emotions, window_sadness_data>>

\* the sampling block is skipped: nothing it assigns changes
NoSample ==
    /\ classified' = <<>>
    /\ UNCHANGED <<last_sample_time, inferences, current_emotion, current_sadness_level,
                   window_emotions, window_sadness_data>>

\* variant: no break, the iteration goes on to the window check with the old `now`
FrameFailsContinues ==
    /\ pc = "frame"
    /\ iters < MaxIter
    /\ iters' = iters + 1
    /\ window_iters' = window_iters + 1
    /\ ret' = FALSE
    /\ pc' = "flush"
    /\ NoSample
    /\ UNCHANGED <<pipeline, clock, now, window_start, rows, faces, args, result>>

\* cap.read() fails: the loop breaks before anything else happens
FrameFails ==
    /\ pc = "frame"
    /\ iters < MaxIter
    /\ iters' = iters + 1
    /\ window_iters' = window_iters + 1
    /\ ret' = FALSE
    /\ pc' = "exit"
    /\ NoSample
    /\ UNCHANGED <<pipeline, clock, now, window_start, rows, faces, args, result>>

\* One frame is read, time.time() is read, faces are detected, and a sample is
\* taken when it is due (face.py 247-300, face_advanced.py 396-437, face_simple.py
\* 194-235); the arguments are what the classifiers can say about a rectangle
FrameWith(score_vectors, predictions, landmark_outcomes, mouths) ==
    /\ pc = "frame"
    /\ iters < MaxIter
    /\ iters' = iters + 1
    /\ window_iters' = window_iters + 1
    /\ ret' = TRUE
    /\ pc' = "flush"
    /\ \E dt \in Elapsed, nfaces \in 0..MaxFaces :
        /\ now' = clock + dt
        /\ clock' = clock + dt
        /\ faces' = Rects(nfaces)
        /\ IF SampleDue(pipeline, now', last_sample_time, nfaces)
           THEN CASE pipeline = "face" ->
                        \E o \in {FaceFails} \cup {FaceOutcome(v) : v \in score_vectors} :
                            SampleFace(o)
                  [] pipeline = "advanced" ->
                        \E pr \in predictions, lm \in landmark_outcomes :
                            SampleAdvanced(pr, lm)
                  [] OTHER -> \E mouth_of \in [1..nfaces -> mouths] :
                            SampleSimple(mouth_of)
           ELSE NoSample
    /\ UNCHANGED <<pipeline, window_start, rows, args, result>>

\* the frame step of the session that is followed through the whole loop
Frame == FrameWith(LoopScoreVectors, LoopPredictions, LoopLandmarkOutcomes, LoopMouths)

\* the frame step on every classifier outcome of the input sets
FrameAny ==
    FrameWith(ScoreVectors, Predictions \cup {PredictRaises}, LandmarkOutcomes, Mouths)

\* the summary row of the window, one per formatting of the mean
SummaryRows ==
    LET emotion_counts == CountKeys(EmotionsOf(window_emotions), 1, <<>>)
        dominant == MajorityKey(emotion_counts)
    IN  IF pipeline = "simple"
        THEN { [window_start |-> window_start, window_end |-> clock,
                primary_emotion |-> dominant,
                samples_collected |-> Len(window_emotions)] }
        ELSE { [window_start |-> window_start, window_end |-> clock,
                primary_emotion |-> dominant,
                sadness_level |-> LevelColumn(window_sadness_data),
                sadness_intensity |-> c,
                emotion_counts |-> emotion_counts,
                samples_collected |-> Len(window_emotions)] :
               c \in IntensityColumns(window_sadness_data) }

\* variant: only window_emotions is cleared
ResetWindowKeepsSadData ==
    /\ window_emotions' = <<>>
    /\ UNCHANGED window_sadness_data
    /\ window_iters' = 0
    /\ \E d \in ResetDelay : /\ clock' = clock + d
                             /\ window_start' = clock + d

\* variant: the sample of the closing iteration is carried into the next window
ResetWindowCarriesLast ==
    /\ window_emotions' = IF Len(window_emotions) > 0
                          THEN <<window_emotions[Len(window_emotions)]>>
                          ELSE <<>>
    /\ window_sadness_data' = <<>>
    /\ window_iters' = 0
    /\ \E d \in ResetDelay : /\ clock' = clock + d
                             /\ window_start' = clock + d

\* the lists are cleared and window_start = time.time()
ResetWindow ==
    /\ window_emotions' = <<>>
    /\ window_sadness_data' = <<>>
    /\ window_iters' = 0
    /\ \E d \in ResetDelay : /\ clock' = clock + d
                             /\ window_start' = clock + d

\* face.py lines 371-421: the row is written only for a non-empty window, the
\* reset is done whenever the window has elapsed
FlushFace ==
    /\ pc = "flush"
    /\ pipeline = "face"
    /\ pc' = "key"
    /\ IF WindowElapsed(now, window_start)
       THEN /\ IF Len(window_emotions) > 0
               THEN \E row \in SummaryRows : rows' = Append(rows, row)
               ELSE UNCHANGED rows
            /\ ResetWindow
       ELSE UNCHANGED <<rows, window_emotions, window_sadness_data, window_iters,
                        window_start, clock>>
    /\ UNCHANGED <<pipeline, now, last_sample_time, current_emotion,
                   current_sadness_level, iters, inferences, ret, faces, classified,
                   args, result>>

\* face_advanced.py lines 500-551, face_simple.py lines 286-318: row and reset
\* are both under `elapsed and window_emotions`
FlushGuarded ==
    /\ pc = "flush"
    /\ pipeline \in {"advanced", "simple"}
    /\ pc' = "key"
    /\ IF WindowElapsed(now, window_start) /\ Len(window_emotions) > 0
       THEN /\ \E row \in SummaryRows : rows' = Append(rows, row)
            /\ ResetWindow
       ELSE UNCHANGED <<rows, window_emotions, window_sadness_data, window_iters,
                        window_start, clock>>
    /\ UNCHANGED <<pipeline, now, last_sample_time, current_emotion,
                   current_sadness_level, iters, inferences, ret, faces, classified,
                   args, result>>

\* cv2.waitKey(1): 'q' breaks the loop, anything else starts the next iteration
KeyWith(keys) ==
    /\ pc = "key"
    /\ \E key \in keys : pc' = IF key = "q" THEN "exit" ELSE "frame"
    /\ UNCHANGED <<pipeline, args, result>>
    /\ UNCHANGED loopvars

\* the user may press 'q' at any iteration
Key == KeyWith({"q", "other"})

\* the user never presses 'q'
KeyNoCancel == KeyWith({"other"})

\* variant: the window in progress is written out on the way out
CleanupFlushing ==
    /\ pc = "exit"
    /\ pc' = "done"
    /\ IF Len(window_emotions) > 0
       THEN \E row \in SummaryRows : rows' = Append(rows, row)
       ELSE UNCHANGED rows
    /\ UNCHANGED <<pipeline, args, result, clock, now, window_start, last_sample_time,
                   window_emotions, window_sadness_data, current_emotion,
                   current_sadness_level, iters, window_iters, inferences, ret, faces,
                   classified>>

\* after the loop: cap.release(), destroyAllWindows(), the closing print
Cleanup ==
    /\ pc = "exit"
    /\ pc' = "done"
    /\ UNCHANGED <<pipeline, args, result>>
    /\ UNCHANGED loopvars

\* main() lines 226-236: the state when the loop is entered
LoopInit ==
    /\ clock = StartTime
    /\ now = StartTime
    /\ window_start = StartTime
    /\ last_sample_time = 0
    /\ window_emotions = <<>>
    /\ window_sadness_data = <<>>
    /\ current_emotion = "neutral"
    /\ current_sadness_level = None
    /\ rows = <<>>
    /\ iters = 0
    /\ window_iters = 0
    /\ inferences = 0
    /\ ret = TRUE
    /\ faces = <<>>
    /\ classified = <<>>

\* one of the three scripts is started
Init ==
    /\ pipeline \in {"face", "advanced", "simple"}
    /\ pc = "frame"
    /\ LoopInit
    /\ args = <<>>
    /\ result = <<>>

Next == FrameFails \/ Frame \/ FlushFace \/ FlushGuarded \/ Key \/ Cleanup

Spec == Init /\ [][Next]_vars

\* The session in which every cap.read() succeeds and 'q' is never pressed.  The
\* loop is a plain `while True:` on one thread, so the iteration in progress
\* always goes on to its next step.
NextLive == Frame \/ FlushFace \/ FlushGuarded \/ KeyNoCancel

SpecLive == Init /\ [][NextLive]_vars /\ WF_vars(NextLive)

-----------------------------------------------------------------------------
(* The level classifiers called on their own, on every input of a grid *)

\* scores in percent; -10 and 110 are values no classifier returns
ScoreGrid == {-10, 0, 20, 21, 25, 30, 40, 41, 50, 70, 100, 110}

\* intensities in tenths of a percent; -1, 1001 and 1500 are out of range
IntensityGrid == {-1, 0, 1, 349, 350, 375, 500, 649, 650, 999, 1000, 1001, 1500}

\* score dicts handed to get_dominant_emotion: those of the classifier, dicts with
\* equal maxima, and the dict that is None or empty
DominantInputs ==
    ScoreVectors \cup
    { <<>>,
      <<30, 30, 0, 0, 30, 0, 10>>,       \* angry = disgust = sad
      <<0, 0, 40, 0, 40, 20, 0>>,        \* fear = sad
      <<0, 0, 0, 50, 50, 0, 0>>,         \* happy = sad
      <<0, 0, 0, 0, 40, 40, 20>>,        \* sad = surprise
      <<0, 0, 0, 0, 50, 0, 50>>,         \* sad = neutral
      <<0, 0, 0, 10, 10, 40, 40>>,       \* surprise = neutral
      <<0, 50, 50, 0, 0, 0, 0>>,         \* disgust = fear
      <<0, 0, 70, 0, 30, 0, 0>>,         \* fear
      <<0, 0, 0, 0, 20, 80, 0>>,         \* surprise
      <<0, 0, 0, 0, 10, 0, 90>>,         \* neutral
      <<90, 0, 0, 0, 10, 0, 0>>,         \* angry
      <<0, 0, 0, 0, 0, 0, 0>> }          \* all equal

\* landmark dicts on both sides of every threshold of analyze_facial_features
LandmarkGrid ==
    { Landmarks(ear, brow, downturn, mar, jaw) :
        ear \in {15, 20, 22, 25, 30}, brow \in {10, 15, 17, 20, 25},
        downturn \in {0, 2, 3, 5, 6}, mar \in {2, 3, 5}, jaw \in {40, 50, 80} }

\* A function of one of the scripts is called on its own: classify_sadness_level
\* (pc = "call"), analyze_facial_features, predict_emotion or get_dominant_emotion
InitFn ==
    /\ LoopInit
    /\ result = <<>>
    /\ \/ /\ pipeline = "face"
          /\ pc = "call"
          /\ args \in ScoreGrid \X ScoreGrid \X ScoreGrid
       \/ /\ pipeline = "advanced"
          /\ pc = "call"
          /\ args \in { <<i>> : i \in IntensityGrid }
       \/ /\ pipeline = "advanced"
          /\ pc = "call_features"
          /\ args \in { <<lm>> : lm \in LandmarkOutcomes \cup LandmarkGrid }
       \/ /\ pipeline = "advanced"
          /\ pc = "call_predict"
          /\ args \in (Predictions \cup {PredictRaises}) \X LandmarkOutcomes
       \/ /\ pipeline = "face"
          /\ pc = "call_dominant"
          /\ args \in { <<v>> : v \in DominantInputs }

\* face.py: sadness_level, intensity = classify_sadness_level(sad_score, fear_score, neutral_score)
CallClassifyFace ==
    /\ pc = "call"
    /\ pipeline = "face"
    /\ result' = classify_sadness_level(args[1], args[2], args[3])
    /\ pc' = "returned"
    /\ UNCHANGED <<pipeline, args>>
    /\ UNCHANGED loopvars

\* face_advanced.py: sadness_level = classify_sadness_level(intensity)
CallClassifyAdvanced ==
    /\ pc = "call"
    /\ pipeline = "advanced"
    /\ result' = <<classify_sadness_level_advanced(args[1])>>
    /\ pc' = "returned"
    /\ UNCHANGED <<pipeline, args>>
    /\ UNCHANGED loopvars

\* face_advanced.py: feature_intensity = analyze_facial_features(landmarks)
CallFeatures ==
    /\ pc = "call_features"
    /\ result' = analyze_facial_features(args[1])
    /\ pc' = "returned_features"
    /\ UNCHANGED <<pipeline, args>>
    /\ UNCHANGED loopvars

\* face_advanced.py: emotion, intensity, sad_prob, happy_prob = predict_emotion(model, face_roi, landmarks)
CallPredict ==
    /\ pc = "call_predict"
    /\ result' = predict_emotion(args[1], args[2])
    /\ pc' = "returned_predict"
    /\ UNCHANGED <<pipeline, args>>
    /\ UNCHANGED loopvars

\* face.py: dominant_emotion, scores = get_dominant_emotion(emotion_scores)
CallDominant ==
    /\ pc = "call_dominant"
    /\ result' = <<get_dominant_emotion(args[1]), args[1]>>
    /\ pc' = "returned_dominant"
    /\ UNCHANGED <<pipeline, args>>
    /\ UNCHANGED loopvars

NextFn ==
    CallClassifyFace \/ CallClassifyAdvanced \/ CallFeatures \/ CallPredict \/ CallDominant

SpecFn == InitFn /\ [][NextFn]_vars

-----------------------------------------------------------------------------
(* The window close, on every window of a bounded length *)

WindowItems(p) ==
    CASE p = "face" -> { EntryFace(v) : v \in ScoreVectors }
      [] p = "advanced" ->
            { EntryAdvanced(pr, lm) : pr \in Predictions \cup {PredictRaises},
                                      lm \in LandmarkOutcomes }
      [] OTHER -> { EntrySimple(m) : m \in Mouths }

IsSadEntry(e) == e.emotion = "sad"

\* the sad-sample list that recording the entries of w, in order, leaves behind
SadDataOf(p, w) ==
    LET sad == SelectSeq(w, IsSadEntry)
    IN  CASE p = "face" -> [i \in 1..Len(sad) |-> SadEntryFace(sad[i].scores)]
          [] p = "advanced" -> [i \in 1..Len(sad) |-> SadEntryAdvanced(sad[i])]
          [] OTHER -> <<>>

\* The loop has just sampled, in the iteration in which the window elapses; w is
\* the window it has collected.
InitWindow ==
    /\ pipeline \in {"face", "advanced", "simple"}
    /\ pc = "flush"
    /\ \E n \in 0..MaxWindow : \E w \in [1..n -> WindowItems(pipeline)] :
        /\ window_emotions = w
        /\ window_sadness_data = SadDataOf(pipeline, w)
        /\ current_emotion = IF n = 0 THEN "neutral" ELSE w[n].emotion
        /\ current_sadness_level =
              IF n > 0 /\ w[n].emotion = "sad" /\ pipeline # "simple"
              THEN SadDataOf(pipeline, w)[Len(SadDataOf(pipeline, w))].level
              ELSE None
        /\ last_sample_time = IF n = 0 THEN 0 ELSE StartTime + AGGREGATION_WINDOW
        /\ iters = Max(n, 1)
        /\ window_iters = Max(n, 1)
        /\ inferences = n
        /\ faces = Rects(Min(n, 1))
        /\ classified = Rects(Min(n, 1))
    /\ window_start = StartTime
    /\ now = StartTime + AGGREGATION_WINDOW
    /\ clock = StartTime + AGGREGATION_WINDOW
    /\ rows = <<>>
    /\ ret = TRUE
    /\ args = <<>>
    /\ result = <<>>

NextWindow == FlushFace \/ FlushGuarded

SpecWindow == InitWindow /\ [][NextWindow]_vars

-----------------------------------------------------------------------------
(* One more frame, on every classifier outcome, early in a session *)

\* The loop is about to read a frame: nothing has been sampled yet, or the first
\* frame (one tenth of a second after the start) was sampled and gave w[1].
InitTick ==
    /\ pipeline \in {"face", "advanced", "simple"}
    /\ pc = "frame"
    /\ \E n \in 0..1 : \E w \in [1..n -> WindowItems(pipeline)] :
        /\ window_emotions = w
        /\ window_sadness_data = SadDataOf(pipeline, w)
        /\ current_emotion = IF n = 0 THEN "neutral" ELSE w[n].emotion
        /\ current_sadness_level =
              IF n > 0 /\ w[n].emotion = "sad" /\ pipeline # "simple"
              THEN SadDataOf(pipeline, w)[1].level
              ELSE None
        /\ last_sample_time = IF n = 0 THEN 0 ELSE StartTime + 1
        /\ now = StartTime + n
        /\ clock = StartTime + n
        /\ iters = n
        /\ window_iters = n
        /\ inferences = n
        /\ faces = Rects(n)
        /\ classified = Rects(n)
    /\ window_start = StartTime
    /\ rows = <<>>
    /\ ret = TRUE
    /\ args = <<>>
    /\ result = <<>>

\* the iteration is followed to its key check
NextTick == FrameAny \/ FlushFace \/ FlushGuarded

SpecTick == InitTick /\ [][NextTick]_vars

-----------------------------------------------------------------------------
(* Properties of the level classifiers, checked under SpecFn *)

\* the band table the running script looks levels up in
ActiveTable == IF pipeline = "face" THEN SADNESS_LEVELS_FACE ELSE SADNESS_LEVELS_ADVANCED

\* the intensity the lookup of the current call is done on, in tenths of a percent
LookedUp ==
    IF pipeline = "face" THEN AdjustedScore(args[1], args[2], args[3]) ELSE args[1]

\* the scores (percent) or the intensity (tenths of a percent) of the current call
\* are values a classifier can return
ArgsInRange ==
    IF pipeline = "face" THEN \A i \in 1..3 : args[i] \in 0..100 ELSE args[1] \in 0..1000

\* C1: for both band tables and every intensity I in [0,100], I = 100 included,
\* exactly one band matches I in the level lookup, and I = 100 is given the top band.
C1_BandPartition ==
    (pc = "returned" /\ ArgsInRange) =>
        /\ Cardinality({ i \in 1..3 : BandMatches(ActiveTable[i], LookedUp) }) = 1
        /\ LookedUp = 1000 => result[1] = "depressed"

\* C2: in face.py classify_sadness_level returns one of upset, melancholic,
\* depressed, and the range of the returned level contains the adjusted score it
\* computed, 100 counting as inside the top band.
C2_LevelContainsAdjusted ==
    (pc = "returned" /\ pipeline = "face" /\ ArgsInRange) =>
        \E i \in 1..3 :
            /\ result[1] = SADNESS_LEVELS_FACE[i].level
            /\ SADNESS_LEVELS_FACE[i].min_val * 10 <= LookedUp
            /\ \/ LookedUp < SADNESS_LEVELS_FACE[i].max_val * 10
               \/ i = 3 /\ LookedUp = 1000

\* C3: in face.py, when fear_score > 20 and neutral_score > 40 and sad_score > 20,
\* the adjusted score is min(100, min(100, sad + 0.3*fear) + 0.2*neutral): the fear
\* boost is kept when the neutral boost applies.
C3_BothBoostsAdd ==
    (/\ pc = "returned" /\ pipeline = "face" /\ ArgsInRange
     /\ args[2] > 20 /\ args[3] > 40 /\ args[1] > 20
     /\ \E i \in 1..3 : BandMatches(SADNESS_LEVELS_FACE[i], LookedUp)) =>
        result[2] = Min(1000, Min(1000, args[1] * 10 + args[2] * 3) + args[3] * 2)

\* a band of face.py's table matched the adjusted score, which is then returned
BandMatched == \E i \in 1..3 : BandMatches(SADNESS_LEVELS_FACE[i], LookedUp)

\* C14: in face.py's classify_sadness_level, when fear_score > 20 and the neutral
\* condition (neutral_score > 40 and sad_score > 20) does not hold, the adjusted
\* score is min(100, sad_score + 0.3 * fear_score); (30, 25, 0) gives 37.5, upset.
C14_FearAdjustment ==
    (pc = "returned" /\ pipeline = "face") =>
        /\ (args[2] > 20 /\ ~(args[3] > 40 /\ args[1] > 20)) =>
              /\ LookedUp = Min(1000, args[1] * 10 + args[2] * 3)
              /\ BandMatched => result[2] = Min(1000, args[1] * 10 + args[2] * 3)
        /\ args = <<30, 25, 0>> => result = <<"upset", 375>>

\* classify_sadness_level(30, 25, 0) has returned ("upset", 37.5)
C14_Witness ==
    /\ pc = "returned"
    /\ pipeline = "face"
    /\ args = <<30, 25, 0>>
    /\ result = <<"upset", 375>>

\* C15: in face.py's classify_sadness_level, when neutral_score > 40 and
\* sad_score > 20 and fear_score <= 20, the adjusted score is
\* min(100, sad_score + 0.2 * neutral_score); sad 25, neutral 50, fear 0 gives
\* 35.0, upset.  When sad_score <= 20 the neutral adjustment is never applied.
C15_NeutralAdjustment ==
    (pc = "returned" /\ pipeline = "face") =>
        /\ (args[3] > 40 /\ args[1] > 20 /\ args[2] <= 20) =>
              /\ LookedUp = Min(1000, args[1] * 10 + args[3] * 2)
              /\ BandMatched => result[2] = Min(1000, args[1] * 10 + args[3] * 2)
        /\ args = <<25, 0, 50>> => result = <<"upset", 350>>
        /\ args[1] <= 20 =>
              /\ LookedUp = IF args[2] > 20 THEN Min(1000, args[1] * 10 + args[2] * 3)
                                           ELSE args[1] * 10
              /\ (BandMatched /\ args[2] <= 20) => result[2] = args[1] * 10

\* classify_sadness_level(25, 0, 50) has returned ("upset", 35.0)
C15_Witness ==
    /\ pc = "returned"
    /\ pipeline = "face"
    /\ args = <<25, 0, 50>>
    /\ result = <<"upset", 350>>

\* C13: in the landmark pipeline, with landmarks absent (None)
\* analyze_facial_features returns exactly 50.0 and predict_emotion's intensity
\* for a sad result is the model intensity alone (the 50.0 is not mixed in); with
\* landmarks present the intensity is 0.6 * model_intensity + 0.4 * feature score.
C13_LandmarkFallback ==
    /\ (pc = "returned_features" /\ ~args[1].present) => result = 50
    /\ (pc = "returned_predict" /\ result.emotion = "sad") =>
          IF args[2].present
          THEN result.intensity
                  = args[1].model_intensity * 6 + analyze_facial_features(args[2]) * 4
          ELSE result.intensity = args[1].model_intensity * 10

\* a sad result without landmarks: a model intensity of 80 came back as 80.0
C13_Witness ==
    /\ pc = "returned_predict"
    /\ ~args[2].present
    /\ args[1].ok
    /\ args[1].model_intensity = 80
    /\ result.emotion = "sad"
    /\ result.intensity = 800

\* C16 as stated: in the landmark pipeline classify_sadness_level returns one of
\* the names mild, moderate, severe, with lower bounds inclusive: exactly 35
\* returns "moderate" and exactly 65 returns "severe".
C16_VariantBNames ==
    (pc = "returned" /\ pipeline = "advanced") =>
        /\ result[1] \in {"mild", "moderate", "severe"}
        /\ args[1] = 350 => result[1] = "moderate"
        /\ args[1] = 650 => result[1] = "severe"

\* C16 as amended: in the landmark pipeline classify_sadness_level returns one of
\* upset, melancholic, depressed (the part after the underscore of the table keys
\* mild_upset, moderate_melancholic, severe_depressed), with lower bounds
\* inclusive: exactly 35 returns "melancholic" and exactly 65 returns "depressed",
\* while 34.9 is still "upset" and 64.9 still "melancholic".
C16_LevelNamesAdvanced ==
    (pc = "returned" /\ pipeline = "advanced") =>
        /\ result[1] \in {"upset", "melancholic", "depressed"}
        /\ args[1] = 349 => result[1] = "upset"
        /\ args[1] = 350 => result[1] = "melancholic"
        /\ args[1] = 649 => result[1] = "melancholic"
        /\ args[1] = 650 => result[1] = "depressed"

\* classify_sadness_level(35.0) of face_advanced.py has returned "melancholic"
C16_Witness ==
    /\ pc = "returned"
    /\ pipeline = "advanced"
    /\ args = <<350>>
    /\ result = <<"melancholic">>

\* the level the running script's lookup returns for I = 0, its lowest band
LowestBandName ==
    IF pipeline = "face" THEN classify_sadness_level(0, 0, 0)[1]
    ELSE classify_sadness_level_advanced(0)

\* C17: the level lookup is total and has no side effect: for an intensity outside
\* [0,100] it returns the lowest band of the active table, the very name the
\* normal path returns for I = 0, and no aggregator or display state changes.
C17_DefaultLowestBand ==
    pc = "returned" =>
        /\ result[1] \in {"upset", "melancholic", "depressed"}
        /\ (LookedUp < 0 \/ LookedUp > 1000) =>
              /\ result[1] = LowestBandName
              /\ BandMatches(ActiveTable[1], 0)
              /\ \A i \in 1..3 : ~BandMatches(ActiveTable[i], LookedUp)
        /\ window_emotions = <<>>
        /\ window_sadness_data = <<>>
        /\ rows = <<>>
        /\ current_emotion = "neutral"
        /\ current_sadness_level = None
        /\ window_start = StartTime
        /\ last_sample_time = 0

\* face_advanced.py's lookup was called with a negative intensity and returned "upset"
C17_Witness ==
    /\ pc = "returned"
    /\ pipeline = "advanced"
    /\ args[1] < 0
    /\ result = <<"upset">>

\* the fixed label table: disgust -> angry, fear -> fearful, surprise -> surprised
MappedLabel(label) ==
    IF label = "disgust" THEN "angry"
    ELSE IF label = "fear" THEN "fearful"
    ELSE IF label = "surprise" THEN "surprised"
    ELSE label

\* C18: get_dominant_emotion returns the label with the maximum score, the
\* earliest label in the order angry, disgust, fear, happy, sad, surprise, neutral
\* winning a tie, mapped by the fixed table; an empty or absent score mapping
\* yields no label.
C18_DominantEmotion ==
    pc = "returned_dominant" =>
        IF Len(args[1]) = 0 THEN result[1] = None
        ELSE \E k \in 1..7 :
                /\ \A j \in 1..7 : args[1][j] <= args[1][k]
                /\ \A j \in 1..(k - 1) : args[1][j] < args[1][k]
                /\ result[1] = MappedLabel(EMOTIONS[k])

\* happy and sad tied at 50 and happy, the earlier label, was returned
C18_Witness ==
    /\ pc = "returned_dominant"
    /\ args[1] = <<0, 0, 0, 50, 50, 0, 0>>
    /\ result[1] = "happy"

-----------------------------------------------------------------------------
(* Properties of the window close, checked under SpecWindow *)

Occurrences(keys, k) == Cardinality({ i \in 1..Len(keys) : keys[i] = k })

FirstOccurrence(keys, k) ==
    CHOOSE i \in 1..Len(keys) : keys[i] = k /\ \A j \in 1..(i - 1) : keys[j] # k

\* k has the highest count in keys, and no key with the same count occurs earlier
IsFirstSeenMajority(keys, k) ==
    /\ \E i \in 1..Len(keys) : keys[i] = k
    /\ \A i \in 1..Len(keys) :
          \/ Occurrences(keys, keys[i]) < Occurrences(keys, k)
          \/ /\ Occurrences(keys, keys[i]) = Occurrences(keys, k)
             /\ FirstOccurrence(keys, k) <= FirstOccurrence(keys, keys[i])

LastRow == rows'[Len(rows')]

\* C4: the dominant emotion of a summary is the label with the highest count in
\* the window, the earliest first occurrence winning a tie ([sad, happy, sad,
\* happy] gives sad); the dominant sadness level is chosen the same way among the
\* sad samples.
C4_MajorityFirstSeen ==
    [][ rows' # rows =>
          /\ IsFirstSeenMajority(EmotionsOf(window_emotions), LastRow.primary_emotion)
          /\ EmotionsOf(window_emotions) = <<"sad", "happy", "sad", "happy">>
                => LastRow.primary_emotion = "sad"
          /\ (pipeline # "simple" /\ Len(window_sadness_data) > 0)
                => IsFirstSeenMajority(LevelsOf(window_sadness_data), LastRow.sadness_level)
      ]_vars

\* a 2-2 tie between sad (seen first) and happy was summarised as sad
C4_Witness ==
    /\ pc = "key"
    /\ pipeline # "simple"
    /\ Len(rows) = 1
    /\ rows[1].emotion_counts = << [key |-> "sad", count |-> 2], [key |-> "happy", count |-> 2] >>
    /\ rows[1].primary_emotion = "sad"

\* C7: when a window with a sad sample closes, the summary's mean intensity is the
\* arithmetic mean of the sad samples' intensities, to two decimals ([20, 50, 80]
\* gives 50.00), and its level is the majority of the per-sample levels.
C7_MeanAndVote ==
    [][ (rows' # rows /\ pipeline # "simple" /\ Len(window_sadness_data) > 0) =>
          LET n == Len(window_sadness_data)
              total == SumIntensity(window_sadness_data, 1)
          IN  /\ LastRow.sadness_intensity.kind = "number"
              /\ 2 * Abs(LastRow.sadness_intensity.hundredths * n - total * 10) <= n
              /\ [i \in 1..n |-> window_sadness_data[i].intensity] = <<200, 500, 800>>
                    => LastRow.sadness_intensity.hundredths = 5000
              /\ IsFirstSeenMajority(LevelsOf(window_sadness_data), LastRow.sadness_level)
      ]_vars

\* C12: a summary row written for a window in which no sad sample was recorded
\* carries the literal string "N/A" in both the sadness_level and the
\* sadness_intensity fields, never an empty or null value.
C12_NoSadIsNA ==
    [][ (/\ rows' # rows
         /\ pipeline # "simple"
         /\ \A i \in 1..Len(window_emotions) : window_emotions[i].emotion # "sad") =>
          /\ LastRow.sadness_level = NA
          /\ LastRow.sadness_intensity = [kind |-> NA]
      ]_vars

\* a window of several samples, none of them sad, was summarised with "N/A" twice
C12_Witness ==
    /\ pc = "key"
    /\ pipeline # "simple"
    /\ Len(rows) = 1
    /\ rows[1].samples_collected >= 2
    /\ \A j \in 1..Len(rows[1].emotion_counts) : rows[1].emotion_counts[j].key # "sad"
    /\ rows[1].sadness_level = NA
    /\ rows[1].sadness_intensity.kind = NA

-----------------------------------------------------------------------------
(* Properties of the frame loop, checked under Spec *)

\* C5: in every pipeline, whenever now - window_start >= AGGREGATION_WINDOW at the
\* flush step, the buffers are cleared and window_start is reset, also for an
\* empty window, which writes no row.
C5_ResetUnconditional ==
    [][ (pc = "flush" /\ now - window_start >= AGGREGATION_WINDOW) =>
          /\ window_emotions' = <<>>
          /\ window_sadness_data' = <<>>
          /\ window_start' >= now
          /\ Len(window_emotions) = 0 => rows' = rows
      ]_vars

\* C6: while now - window_start < AGGREGATION_WINDOW the flush step writes no row
\* and leaves both lists and window_start as they are.
C6_FlushNoOp ==
    [][ (pc = "flush" /\ now - window_start < AGGREGATION_WINDOW) =>
          UNCHANGED <<rows, window_emotions, window_sadness_data, window_start>>
      ]_vars

\* the flush step has been passed with samples in a window that has not elapsed
C6_Witness ==
    /\ pc = "key"
    /\ Len(window_emotions) > 0
    /\ now - window_start < AGGREGATION_WINDOW
    /\ rows = <<>>

\* C8: a failed classifier call appends nothing: the "neutral" fallback is in no
\* window and in no summary's counts, so the binary pipeline's window and counts
\* hold only happy and sad.
C8_NoFallbackInWindow ==
    pipeline = "advanced" =>
        /\ \A i \in 1..Len(window_emotions) : window_emotions[i].emotion \in {"happy", "sad"}
        /\ \A r \in 1..Len(rows) : \A j \in 1..Len(rows[r].emotion_counts) :
              rows[r].emotion_counts[j].key \in {"happy", "sad"}

\* C9: once the flush step of an iteration is over, neither the key check that
\* detects 'q' nor anything after the loop writes a row: the window in progress
\* is dropped.
C9_NoFlushOnCancel ==
    [][ (pc = "key" \/ pc = "exit" \/ pc = "done") => rows' = rows ]_vars

\* the session was cancelled with samples in the window, and no row holds them
C9_Witness ==
    /\ pc = "done"
    /\ ret
    /\ Len(window_emotions) > 0
    /\ rows = <<>>

\* C10: an iteration runs the classifier at most once, and only when
\* now - last_sample_time >= SAMPLE_INTERVAL, so two successive inferences are at
\* least SAMPLE_INTERVAL apart; a window never holds more samples than iterations
\* were started in it.
C10_SamplingGate ==
    /\ [](Len(window_emotions) <= window_iters)
    /\ [][ /\ inferences' <= inferences + 1
           /\ Len(window_emotions') <= Len(window_emotions) + 1
           /\ inferences' # inferences =>
                 /\ pc = "frame"
                 /\ now' - last_sample_time >= SAMPLE_INTERVAL(pipeline)
                 /\ last_sample_time' = now'
       ]_vars

\* after two inferences a frame came before the interval had elapsed and was not sampled
C10_Witness ==
    /\ pc = "flush"
    /\ inferences >= 2
    /\ iters > inferences
    /\ last_sample_time > 0
    /\ now - last_sample_time > 0
    /\ now - last_sample_time < SAMPLE_INTERVAL(pipeline)

-----------------------------------------------------------------------------
(* Properties of one sampling tick, checked under SpecTick *)

\* C11: on a tick with any number n >= 1 of detected rectangles only the first
\* rectangle is handed to the classifier and at most one sample is appended, in
\* all three pipelines: the window grows by at most 1 per tick whatever n is.
C11_FirstFaceOnly ==
    [][ pc = "frame" =>
          /\ Len(window_emotions') <= Len(window_emotions) + 1
          /\ Len(window_sadness_data') <= Len(window_sadness_data) + 1
          /\ inferences' <= inferences + 1
          /\ inferences' # inferences =>
                /\ Len(faces') >= 1
                /\ classified' = <<faces'[1]>>
          /\ inferences' = inferences =>
                /\ classified' = <<>>
                /\ window_emotions' = window_emotions
      ]_vars

\* a frame with several rectangles was sampled: one rectangle was classified and
\* the window holds one more sample than before
C11_Witness ==
    /\ pc = "flush"
    /\ Len(faces) >= 2
    /\ classified = <<1>>
    /\ inferences = 2
    /\ Len(window_emotions) = 2

\* sad is the raw argmax of a score dict: the largest score, and no earlier label
\* of EMOTIONS has the same score
RawArgmaxIsSad(scores) ==
    /\ \A j \in 1..7 : scores[j] <= scores[5]
    /\ \A j \in 1..4 : scores[j] < scores[5]

\* C19: in face.py the label remapping does not touch the sadness math: a sample
\* is recorded as sad exactly when the raw argmax label is "sad", and the level
\* and intensity of a sad entry come from the raw sad, fear and neutral scores of
\* that sample.
C19_RawKeys ==
    pipeline = "face" =>
        LET sad == SelectSeq(window_emotions, IsSadEntry)
        IN  /\ \A i \in 1..Len(window_emotions) :
                  window_emotions[i].emotion = "sad"
                      <=> RawArgmaxIsSad(window_emotions[i].scores)
            /\ Len(window_sadness_data) = Len(sad)
            /\ \A k \in 1..Len(sad) :
                  LET cls == classify_sadness_level(sad[k].scores[5], sad[k].scores[3],
                                                    sad[k].scores[7])
                  IN  window_sadness_data[k] = [level |-> cls[1], intensity |-> cls[2]]

\* a sample with sad 60 and fear 25 was recorded with intensity 67.5: the raw
\* fear score was read
C19_Witness ==
    /\ pc = "flush"
    /\ pipeline = "face"
    /\ Len(window_emotions) = 2
    /\ window_emotions[2].scores = <<0, 0, 25, 0, 60, 0, 15>>
    /\ Len(window_sadness_data) >= 1
    /\ window_sadness_data[Len(window_sadness_data)]
          = [level |-> "melancholic", intensity |-> 675]

-----------------------------------------------------------------------------
(* Properties of the two lists, checked under Spec *)

NumberOfSad(entries) == Cardinality({ i \in 1..Len(entries) : entries[i].emotion = "sad" })

\* C20: a (level, intensity) entry is appended to the sad-sample list if and only
\* if the sample appended to window_emotions is "sad"; hence in every reachable
\* state of face.py and face_advanced.py the length of window_sadness_data is the
\* number of "sad" entries of window_emotions.
C20_SadListLength ==
    /\ [](pipeline \in {"face", "advanced"} =>
             Len(window_sadness_data) = NumberOfSad(window_emotions))
    /\ [][ (pipeline \in {"face", "advanced"}
            /\ Len(window_emotions') = Len(window_emotions) + 1) =>
              IF window_emotions'[Len(window_emotions')].emotion = "sad"
              THEN /\ Len(window_sadness_data') = Len(window_sadness_data) + 1
                   /\ SubSeq(window_sadness_data', 1, Len(window_sadness_data))
                         = window_sadness_data
              ELSE window_sadness_data' = window_sadness_data
       ]_vars

\* a window holds a sad and a non-sad sample, and one sad entry
C20_Witness ==
    /\ pc = "flush"
    /\ pipeline \in {"face", "advanced"}
    /\ Len(window_emotions) = 2
    /\ window_emotions[1].emotion = "sad"
    /\ window_emotions[2].emotion # "sad"
    /\ Len(window_sadness_data) = 1

-----------------------------------------------------------------------------
(* Properties of the order of the steps of an iteration, checked under Spec *)

\* C21: the flush check runs after the sampling step of the same iteration: a
\* sample taken in the iteration in which now - window_start reaches
\* AGGREGATION_WINDOW is counted in the summary of the closing window and is not
\* carried into the next window.
C21_FlushAfterSample ==
    [][ (/\ pc = "flush"
         /\ now - window_start >= AGGREGATION_WINDOW
         /\ Len(window_emotions) > 0) =>
          /\ Len(rows') = Len(rows) + 1
          /\ LastRow.samples_collected = Len(window_emotions)
          /\ LastRow.primary_emotion \in
                { window_emotions[i].emotion : i \in 1..Len(window_emotions) }
          /\ window_emotions' = <<>>
          /\ window_sadness_data' = <<>>
      ]_vars

\* the iteration that closed the window had sampled: the row counts that sample
\* with the earlier one and the new window is empty
C21_Witness ==
    /\ pc = "key"
    /\ last_sample_time = now
    /\ classified = <<1>>
    /\ inferences = 2
    /\ Len(rows) = 1
    /\ rows[1].samples_collected = 2
    /\ window_emotions = <<>>

\* C22: when a frame read fails the loop ends in that iteration, before the
\* sampling step and before the flush check: no sample is recorded and no summary
\* row is written after the failure, whatever the window holds.
C22_ReadFailureStops ==
    [][ /\ (pc = "frame" /\ ~ret') =>
              /\ pc' = "exit"
              /\ UNCHANGED <<window_emotions, window_sadness_data, rows, last_sample_time,
                             inferences, current_emotion, current_sadness_level,
                             window_start, now>>
        /\ ~ret =>
              /\ pc' = "done"
              /\ UNCHANGED <<window_emotions, window_sadness_data, rows, last_sample_time,
                             inferences, window_start>>
      ]_vars

\* a read failed with two samples in the window: the session is over and no row
\* was written
C22_Witness ==
    /\ pc = "done"
    /\ ~ret
    /\ Len(window_emotions) = 2
    /\ rows = <<>>

\* C23: an iteration whose frame shows no face produces no sample and leaves
\* window_emotions, window_sadness_data, last_sample_time and the displayed
\* emotion and level as they were; a frame with a face is sampled as soon as
\* SAMPLE_INTERVAL has passed since last_sample_time.
C23_NoFaceNoSample ==
    [][ (pc = "frame" /\ ret') =>
          /\ Len(faces') = 0 =>
                /\ classified' = <<>>
                /\ UNCHANGED <<window_emotions, window_sadness_data, last_sample_time,
                               current_emotion, current_sadness_level, inferences>>
          /\ (Len(faces') > 0 /\ now' - last_sample_time >= SAMPLE_INTERVAL(pipeline)) =>
                /\ classified' # <<>>
                /\ inferences' > inferences
                /\ last_sample_time' = now'
      ]_vars

\* a sample was taken, then a frame without a face arrived after the interval had
\* elapsed: the interval is still counted from the sample
C23_Witness ==
    /\ pc = "flush"
    /\ ret
    /\ faces = <<>>
    /\ inferences = 1
    /\ iters = 2
    /\ last_sample_time > 0
    /\ now - last_sample_time >= SAMPLE_INTERVAL(pipeline)

-----------------------------------------------------------------------------
(* Properties of the summary row, checked under SpecWindow and Spec *)

\* C24: a summary row carries "N/A" as its sadness_intensity if and only if the
\* window's sad-sample list was empty; a window with a sad sample has a real
\* sadness level and a numeric mean, and sad samples whose intensities are all 0
\* give the number 0.00.
C24_NumericIffSadSamples ==
    [][ (rows' # rows /\ pipeline # "simple") =>
          /\ (LastRow.sadness_intensity = [kind |-> NA]) <=> (Len(window_sadness_data) = 0)
          /\ Len(window_sadness_data) > 0 => LastRow.sadness_level # NA
          /\ (Len(window_sadness_data) > 0 /\ SumIntensity(window_sadness_data, 1) = 0) =>
                LastRow.sadness_intensity = [kind |-> "number", hundredths |-> 0]
      ]_vars

RECURSIVE SumCounts(_, _)
SumCounts(counts, i) ==
    IF i > Len(counts) THEN 0 ELSE counts[i].count + SumCounts(counts, i + 1)

\* C25: every summary row describes a non-empty window: samples_collected is at
\* least 1 and is the number of samples recorded since the previous reset, the
\* per-label counts add up to samples_collected, the dominant emotion is a label
\* that occurs in the window, and a window gives at most one row (one row is
\* appended, the window is emptied by the same step, and successive rows cover
\* successive windows).
C25_RowDescribesWindow ==
    /\ [](\A i \in 1..Len(rows) :
            /\ rows[i].samples_collected >= 1
            /\ rows[i].window_start < rows[i].window_end
            /\ i < Len(rows) => rows[i].window_end <= rows[i + 1].window_start)
    /\ [][ rows' # rows =>
             /\ pc = "flush"
             /\ rows' = Append(rows, LastRow)
             /\ LastRow.samples_collected = Len(window_emotions)
             /\ LastRow.samples_collected <= window_iters
             /\ LastRow.window_start = window_start
             /\ pipeline # "simple" =>
                   /\ SumCounts(LastRow.emotion_counts, 1) = LastRow.samples_collected
                   /\ \A j \in 1..Len(LastRow.emotion_counts) :
                         LastRow.emotion_counts[j].count =
                            Occurrences(EmotionsOf(window_emotions),
                                        LastRow.emotion_counts[j].key)
             /\ \E j \in 1..Len(window_emotions) :
                   window_emotions[j].emotion = LastRow.primary_emotion
             /\ window_emotions' = <<>>
             /\ window_start' >= LastRow.window_end
       ]_vars

\* two windows were closed, the first with two samples of one label; each gave
\* one row
C25_Witness ==
    /\ Len(rows) = 2
    /\ pipeline # "simple"
    /\ rows[1].samples_collected = 2
    /\ Len(rows[1].emotion_counts) = 1
    /\ rows[2].samples_collected = 1
    /\ window_emotions = <<>>

-----------------------------------------------------------------------------
(* Every sample reaches a summary row, checked under SpecLive *)

IsPrefix(u, w) == Len(u) <= Len(w) /\ SubSeq(w, 1, Len(u)) = u

\* the bounded session stopped while the window in progress was still running
SessionEndsInsideWindow ==
    /\ pc = "frame"
    /\ iters = MaxIter
    /\ now - window_start < AGGREGATION_WINDOW

\* C26: while frames keep arriving and nobody cancels, every recorded sample
\* ends up in exactly one summary row: a step either keeps the samples of the
\* window where they are, or writes one row that counts all of them and empties
\* the window; a non-empty window is flushed at the first window check at which
\* now - window_start >= AGGREGATION_WINDOW; and a non-empty window is
\* eventually flushed (unless the session stops inside that window).
C26_EverySampleSummarised ==
    /\ [][ \/ /\ IsPrefix(window_emotions, window_emotions')
              /\ rows' = rows
           \/ /\ pc = "flush"
              /\ now - window_start >= AGGREGATION_WINDOW
              /\ Len(window_emotions) > 0
              /\ rows' = Append(rows, LastRow)
              /\ LastRow.samples_collected = Len(window_emotions)
              /\ window_emotions' = <<>>
       ]_vars
    /\ [][ (pc = "flush" /\ Len(window_emotions) > 0) =>
             (rows' # rows <=> now - window_start >= AGGREGATION_WINDOW)
       ]_vars
    /\ (Len(window_emotions) > 0) ~>
          (Len(window_emotions) = 0 \/ SessionEndsInsideWindow)

\* a window of two samples was summarised in one row, and the sample taken
\* after it sits in the next window
C26_Witness ==
    /\ Len(rows) = 1
    /\ rows[1].samples_collected = 2
    /\ Len(window_emotions) = 1
    /\ inferences >= 3
    /\ iters = MaxIter

-----------------------------------------------------------------------------
(* The range of the stored intensities, checked under SpecTick *)

\* the sad entries of the window, in the order they were recorded
SadSamples == SelectSeq(window_emotions, IsSadEntry)

\* C27: with classifier scores (face.py) or model intensity and geometric score
\* (face_advanced.py) in [0,100], every intensity in the sad-sample list is in
\* [0,100], and so is the mean of every summary row; in face.py the intensity
\* stored is the adjusted score, not the raw sad score, whenever a band matched.
C27_IntensityRange ==
    /\ \A i \in 1..Len(window_sadness_data) :
          /\ window_sadness_data[i].intensity >= 0
          /\ window_sadness_data[i].intensity <= 1000
    /\ \A i \in 1..Len(rows) :
          (pipeline # "simple" /\ rows[i].sadness_intensity.kind = "number") =>
             /\ rows[i].sadness_intensity.hundredths >= 0
             /\ rows[i].sadness_intensity.hundredths <= 10000
    /\ pipeline = "face" =>
          \A i \in 1..Len(window_sadness_data) :
             LET sad_score == SadSamples[i].scores[5]
                 fear_score == SadSamples[i].scores[3]
                 neutral_score == SadSamples[i].scores[7]
                 boosted == IF neutral_score > 40 /\ sad_score > 20
                            THEN Min(1000, sad_score * 10 + neutral_score * 2)
                            ELSE IF fear_score > 20
                            THEN Min(1000, sad_score * 10 + fear_score * 3)
                            ELSE sad_score * 10
             IN  (boosted >= 0 /\ boosted < 1000) =>
                    window_sadness_data[i].intensity = boosted

\* sad 60 with fear 25 was sampled into a window that held a sad sample already:
\* 67.5 is stored, not 60
C27_Witness ==
    /\ pipeline = "face"
    /\ pc = "flush"
    /\ Len(window_sadness_data) = 2
    /\ SadSamples[2].scores[5] = 60
    /\ window_sadness_data[2].intensity = 675

-----------------------------------------------------------------------------
(* The geometric score, checked under SpecFn *)

\* at least one branch of the rubric added its points
IndicatorFired(lm) ==
    \/ lm.avg_ear < 25
    \/ lm.avg_brow_dist < 20
    \/ lm.downturn > 2
    \/ lm.mar < 3
    \/ lm.jaw_variance < 50

-----------------------------------------------------------------------------
(* The displayed state and the sampling slot, checked under Spec *)

\* C29: in face.py and face_advanced.py the displayed state is consistent in
\* every reachable state: current_sadness_level is not None only when
\* current_emotion is "sad", and after a sampling tick whose result is not sad
\* current_sadness_level is None.
C29_DisplayConsistent ==
    /\ [](pipeline \in {"face", "advanced"} =>
            (current_sadness_level # None => current_emotion = "sad"))
    /\ [][ (/\ pipeline \in {"face", "advanced"}
            /\ Len(window_emotions') = Len(window_emotions) + 1
            /\ window_emotions'[Len(window_emotions')].emotion # "sad") =>
              /\ current_emotion' = window_emotions'[Len(window_emotions')].emotion
              /\ current_sadness_level' = None
       ]_vars

\* a sad sample set the level, the next sample of the same window was not sad and
\* the level is gone
C29_Witness ==
    /\ pipeline \in {"face", "advanced"}
    /\ pc = "flush"
    /\ Len(window_emotions) = 2
    /\ window_emotions[1].emotion = "sad"
    /\ Len(window_sadness_data) = 1
    /\ current_emotion # "sad"
    /\ current_sadness_level = None

\* C30: nothing is retried.  A tick that runs the classifier has taken the
\* sampling slot whether or not the classifier gave a result: last_sample_time is
\* the time of that tick, and a frame that arrives less than SAMPLE_INTERVAL after
\* it does not run the classifier.  A tick of face.py whose classification fails
\* leaves window_emotions, window_sadness_data and the displayed emotion and
\* level as they were.
C30_NoRetries ==
    [][ /\ inferences' # inferences => last_sample_time' = now'
        /\ (pc = "frame" /\ ret' /\ now' - last_sample_time < SAMPLE_INTERVAL(pipeline)) =>
              /\ inferences' = inferences
              /\ classified' = <<>>
              /\ UNCHANGED <<last_sample_time, window_emotions, window_sadness_data>>
        /\ (/\ pipeline = "face"
            /\ inferences' # inferences
            /\ Len(window_emotions') = Len(window_emotions)) =>
              /\ classified' = <<1>>
              /\ UNCHANGED <<window_emotions, window_sadness_data, current_emotion,
                             current_sadness_level, rows>>
      ]_vars

\* the only tick of face.py so far failed, and the frame with a face that came
\* before the interval was over was not classified
C30_Witness ==
    /\ pipeline = "face"
    /\ pc = "flush"
    /\ iters = 2
    /\ inferences = 1
    /\ window_emotions = <<>>
    /\ rows = <<>>
    /\ window_start = StartTime
    /\ Len(faces) > 0
    /\ classified = <<>>
    /\ last_sample_time > 0
    /\ now - last_sample_time < SAMPLE_INTERVAL(pipeline)

====
